---- MODULE Spec2Model ----
(***************************************************************************)
(* Model of create_opengl_project.py: the slug normaliser, the project     *)
(* generator (main, safe_write) acting on a file tree, and the behaviour   *)
(* of two generated artefacts (the Application class of Application.cpp    *)
(* and the oneAPI step of build.sh).                                       *)
(***************************************************************************)
EXTENDS Integers, Sequences, FiniteSets, TLC

VARIABLES
    name, result,                                   \* slugify(name) harness
    fs, fs0, pc, project_display_name, force, slug, \* one run of main()
    step, exit_code, stderr, written, conflict, created, faulted, rerun,
    succeeded,
    \* the generated Application (Application.cpp) run by the generated main.cpp
    app_pc, glfw_initialized_, window_, imgui_initialized_, acquired, released,
    release_log, frames, clear_color, viewport, should_close, app_exit,
    \* the generated build.sh
    sh_pc, argv, env, TYPE, RUN_AFTER_BUILD, FORMAT_AFTER_BUILD, APP_PATH,
    ONEAPI_ROOT, IPPROOT, errexit, nounset, err_trap, saved_opts, roots, cand,
    oneapi, out, execs, ran, sh_exit

varsSlug == <<name, result>>
varsGen  == <<fs, fs0, pc, project_display_name, force, slug,
              step, exit_code, stderr, written, conflict, created, faulted,
              rerun, succeeded>>
varsApp  == <<app_pc, glfw_initialized_, window_, imgui_initialized_, acquired,
              released, release_log, frames, clear_color, viewport, should_close,
              app_exit>>
varsSh   == <<sh_pc, argv, env, TYPE, RUN_AFTER_BUILD, FORMAT_AFTER_BUILD,
              APP_PATH, ONEAPI_ROOT, IPPROOT, errexit, nounset, err_trap,
              saved_opts, roots, cand, oneapi, out, execs, ran, sh_exit>>
vars == <<varsSlug, varsGen, varsApp, varsSh>>

----------------------------------------------------------------------------
(* Characters and strings.  A string is a sequence of one-character strings. *)

MaxLen == 3

Whitespace == {" "}
Punct      == {"*", "_", "!"}
AsciiLower == {"a", "b", "m", "y", "g", "e"}
AsciiUpper == {"B", "M", "G"}
Digits     == {"1"}
NonAscii   == {"é"}     \* a letter (str.isalnum() is True) outside [a-z0-9]

\* The characters the bounded inputs are drawn from.
Chars == {"a", "B", "1", "_", " ", "*", "é"}

\* [a-z0-9] of the regular expression
SlugChars == AsciiLower \cup Digits

Strings(n) == UNION {[1..k -> Chars] : k \in 0..n}

MyGame == <<"M", "y", " ", "G", "a", "m", "e", "!", "!">>
Names == Strings(MaxLen) \cup {MyGame}

\* str.lower() on one character
Lower(c) ==
    CASE c = "B" -> "b"
      [] c = "M" -> "m"
      [] c = "G" -> "g"
      [] OTHER -> c

LowerStr(s) == [i \in 1..Len(s) |-> Lower(s[i])]

RECURSIVE LStrip(_, _)
LStrip(s, set) ==
    IF s # <<>> /\ Head(s) \in set THEN LStrip(Tail(s), set) ELSE s

RECURSIVE RStrip(_, _)
RStrip(s, set) ==
    IF s # <<>> /\ s[Len(s)] \in set THEN RStrip(SubSeq(s, 1, Len(s) - 1), set) ELSE s

\* str.strip(chars)
Strip(s, set) == RStrip(LStrip(s, set), set)

AllChars == Whitespace \cup Punct \cup AsciiLower \cup AsciiUpper \cup Digits \cup NonAscii

\* re.sub(r"[^a-z0-9]+", "_", s): every maximal run of characters outside
\* [a-z0-9] is replaced by one "_".
RECURSIVE SubRuns(_)
SubRuns(s) ==
    IF s = <<>> THEN <<>>
    ELSE IF Head(s) \in SlugChars THEN <<Head(s)>> \o SubRuns(Tail(s))
    ELSE <<"_">> \o SubRuns(LStrip(s, AllChars \ SlugChars))

\* A slugify that forgets the final strip("_").
slugify_nostrip(s) ==
    LET t == SubRuns(LowerStr(Strip(s, Whitespace)))
    IN  IF t = <<>> THEN [raised |-> "ValueError", value |-> <<>>]
        ELSE [raised |-> "none", value |-> t]

\* A slugify that returns the empty slug instead of raising.
slugify_noraise(s) ==
    [raised |-> "none",
     value |-> Strip(SubRuns(LowerStr(Strip(s, Whitespace))), {"_"})]

\* def slugify(name): the slug, or ValueError when it is empty.
slugify(s) ==
    LET t == Strip(SubRuns(LowerStr(Strip(s, Whitespace))), {"_"})
    IN  IF t = <<>> THEN [raised |-> "ValueError", value |-> <<>>]
        ELSE [raised |-> "none", value |-> t]

Pending == [raised |-> "pending", value |-> <<>>]

InitSlugVars == name \in Names /\ result = Pending

\* The harness applies slugify to the chosen display name.
CallSlugify ==
    /\ result = Pending
    /\ result' = slugify(name)
    /\ UNCHANGED name


----------------------------------------------------------------------------
(* The file tree at baseDirectory/slug.                                    *)

MaxPre == 1     \* listed file paths occupied before the first run

\* A main() that writes README.md first.
WriteOrderReadmeFirst ==
    <<"README.md", "CMakeLists.txt", "src/main.cpp", "src/Application.hpp",
      "src/Application.cpp", "build.sh", "chmod build.sh",
      "cmake/patch_glad.cmake", ".gitignore", ".ignore">>

\* The files main() writes, in the order of its safe_write calls, with the
\* chmod of build.sh where main() performs it.
WriteOrder ==
    <<"CMakeLists.txt", "src/main.cpp", "src/Application.hpp",
      "src/Application.cpp", "README.md", "build.sh", "chmod build.sh",
      "cmake/patch_glad.cmake", ".gitignore", ".ignore">>

FileNames == {WriteOrder[i] : i \in 1..Len(WriteOrder)} \ {"chmod build.sh"}

InSrc   == {"src/main.cpp", "src/Application.hpp", "src/Application.cpp"}
InCmake == {"cmake/patch_glad.cmake"}

Kinds == {"absent", "dir", "file"}

NoText  == [tmpl |-> "none", arg |-> <<>>]
OldText == [tmpl |-> "old", arg |-> <<>>]

Absent    == [kind |-> "absent", contents |-> NoText, exec |-> FALSE]
Directory == [kind |-> "dir", contents |-> NoText, exec |-> FALSE]
OldFile(x) == [kind |-> "file", contents |-> OldText, exec |-> x]

\* The build_* renderers: the text of file f for a display name and a slug.
\* build_cmakelists and build_build_script take the slug, build_main_cpp the
\* display name, build_readme both; the others take nothing.
Render(f, display, sl) ==
    CASE f = "CMakeLists.txt" -> [tmpl |-> f, arg |-> sl]
      [] f = "build.sh"       -> [tmpl |-> f, arg |-> sl]
      [] f = "src/main.cpp"   -> [tmpl |-> f, arg |-> display]
      [] f = "README.md"      -> [tmpl |-> f, arg |-> display \o <<"/">> \o sl]
      [] OTHER                -> [tmpl |-> f, arg |-> <<>>]

EmptyTree ==
    [root |-> "absent", src |-> "absent", cmake |-> "absent",
     files |-> [f \in FileNames |-> Absent], extra |-> FALSE]

\* The trees the environment may have left at the project path before the
\* first run: nothing, a regular file, or a directory with src and cmake of
\* any kind and up to MaxPre occupied paths, each one of the listed paths (a
\* regular file, executable or not, or a directory) or an unlisted file.
PreFiles(s, c) ==
    LET allowed == {f \in FileNames : /\ f \in InSrc => s = "dir"
                                      /\ f \in InCmake => c = "dir"}
    IN  UNION { { [files |-> [f \in FileNames |-> IF f \in S THEN h[f] ELSE Absent],
                   extra |-> x] :
                    h \in [S -> {Directory, OldFile(FALSE), OldFile(TRUE)}] } :
                <<S, x>> \in {p \in (SUBSET allowed) \X BOOLEAN :
                                Cardinality(p[1]) + (IF p[2] THEN 1 ELSE 0) <= MaxPre} }

PreDirs(s, c) ==
    { [root |-> "dir", src |-> s, cmake |-> c, files |-> p.files, extra |-> p.extra] :
        p \in PreFiles(s, c) }

PreTrees ==
    {EmptyTree, [EmptyTree EXCEPT !.root = "file"]} \cup
    UNION { PreDirs(sc[1], sc[2]) : sc \in Kinds \X Kinds }

\* The display names given to main(): empty, blank, punctuation only, a
\* non-ASCII letter, and two names with the same slug.
GenNames ==
    {<<>>, <<" ">>, <<"*">>, <<"é">>, <<"B", " ", "a">>, <<"b", "*", "a">>}

\* What the user types at the "Project name: " prompt.
PromptAnswers == {<<>>, <<" ">>, <<" ", "B", " ", "a", " ">>}

HasSlug(n) == slugify(n).raised = "none"

\* The command lines and prompt answers of one run: the positional name
\* (<<>> when omitted or empty), the answer to the name prompt (read only when
\* the positional name is falsy), whether the base directory exists, --force.
\* --force and a missing base directory are tried with the names that have a
\* slug.
Invocations ==
    { i \in [name : GenNames, typed : PromptAnswers,
             loc : {"base", "missing"}, force : BOOLEAN] :
        /\ i.name # <<>> => i.typed = <<>>
        /\ i.force => HasSlug(i.name) \/ HasSlug(i.typed)
        /\ i.loc = "missing" => HasSlug(i.name) /\ ~i.force }

InitGenVars(trees) ==
    /\ fs \in trees
    /\ fs0 = fs
    /\ pc = "idle"
    /\ project_display_name = <<>>
    /\ force = FALSE
    /\ slug = <<>>
    /\ step = 1
    /\ exit_code = -1
    /\ stderr = "none"
    /\ written = <<>>
    /\ conflict = FALSE
    /\ created = FALSE
    /\ faulted = FALSE
    /\ rerun = FALSE
    /\ succeeded = {}

\* sys.exit(message), or an exception that leaves main(): status 1.
Exit(kind) ==
    /\ pc' = "done"
    /\ exit_code' = 1
    /\ stderr' = kind


\* main(), lines 608-620: parse_args, the display name (the positional
\* argument args.name if it is truthy, else the stripped prompt answer; an
\* omitted argument is falsy like the empty one, and the prompt is not read
\* when the argument is given), the base directory and its existence check.  The history variables of the run are
\* reset: fs0 is the tree as the run finds it.
ParseAndResolve ==
    /\ pc \in {"idle", "done"}
    /\ \E i \in Invocations :
         LET display == IF i.name # <<>> THEN i.name
                        ELSE Strip(i.typed, Whitespace)
         IN  /\ project_display_name' = display
             /\ force' = i.force
             /\ rerun' = (display \in succeeded /\ i.loc = "base")
             /\ IF display = <<>> THEN Exit("name_required")
                ELSE IF i.loc = "missing" THEN Exit("base_missing")
                ELSE pc' = "slugify" /\ exit_code' = -1 /\ stderr' = "none"
    /\ fs0' = fs
    /\ slug' = <<>>
    /\ step' = 1
    /\ written' = <<>>
    /\ conflict' = FALSE
    /\ created' = FALSE
    /\ faulted' = FALSE
    /\ UNCHANGED <<fs, succeeded>>

\* main(), lines 622-623: slug = slugify(project_display_name), outside any
\* try block: a ValueError leaves main() as an unhandled exception.
Slugify ==
    /\ pc = "slugify"
    /\ LET r == slugify(project_display_name)
       IN  IF r.raised = "ValueError"
           THEN Exit("traceback") /\ UNCHANGED slug
           ELSE /\ slug' = r.value
                /\ pc' = "mkdir_root"
                /\ UNCHANGED <<exit_code, stderr>>
    /\ UNCHANGED <<fs, fs0, project_display_name, force, step, written,
                   conflict, created, faulted, rerun, succeeded>>

\* A main() that goes on when the project directory exists, forced or not.
RootConflictNever(f) == FALSE

\* A main() that tests args.force the wrong way round.
RootConflictInverted(f) == f

\* Line 628: `if not args.force: sys.exit(...)` in the FileExistsError handler.
RootConflictFatal(f) == ~f

\* main(), lines 625-629: project_dir.mkdir(parents=True, exist_ok=False).
\* Only FileExistsError is handled; any other OSError leaves main().
MkdirRoot ==
    /\ pc = "mkdir_root"
    /\ \/ /\ fs.root = "absent"
          /\ fs' = [fs EXCEPT !.root = "dir"]
          /\ created' = TRUE
          /\ pc' = "mkdir_src"
          /\ UNCHANGED <<exit_code, stderr, faulted>>
       \/ /\ fs.root = "absent"
          /\ faulted' = TRUE
          /\ Exit("traceback")
          /\ UNCHANGED <<fs, created>>
       \/ /\ fs.root # "absent"
          /\ RootConflictFatal(force)
          /\ Exit("project_dir_exists")
          /\ UNCHANGED <<fs, created, faulted>>
       \/ /\ fs.root # "absent"
          /\ ~RootConflictFatal(force)
          /\ pc' = "mkdir_src"
          /\ UNCHANGED <<fs, created, faulted, exit_code, stderr>>
    /\ UNCHANGED <<fs0, project_display_name, force, slug, step, written,
                   conflict, rerun, succeeded>>

\* Lines 630-633: (project_dir / d).mkdir(exist_ok=True), outside any try
\* block.  It raises when the parent is no directory, when d is a regular
\* file, or when the directory cannot be created.
MkdirSub(d, nextpc) ==
    /\ \/ /\ fs.root = "dir" /\ fs[d] = "dir"
          /\ pc' = nextpc
          /\ UNCHANGED <<fs, exit_code, stderr, faulted>>
       \/ /\ fs.root = "dir" /\ fs[d] = "absent"
          /\ fs' = [fs EXCEPT ![d] = "dir"]
          /\ pc' = nextpc
          /\ UNCHANGED <<exit_code, stderr, faulted>>
       \/ /\ fs.root = "dir" /\ fs[d] = "absent"
          /\ faulted' = TRUE
          /\ Exit("traceback")
          /\ UNCHANGED fs
       \/ /\ fs.root # "dir" \/ fs[d] = "file"
          /\ Exit("traceback")
          /\ UNCHANGED <<fs, faulted>>
    /\ UNCHANGED <<fs0, project_display_name, force, slug, step, written,
                   conflict, created, rerun, succeeded>>

MkdirSrc == pc = "mkdir_src" /\ MkdirSub("src", "mkdir_cmake")

MkdirCmake == pc = "mkdir_cmake" /\ MkdirSub("cmake", "write")

\* A safe_write that refuses an existing path even with force.
SafeWriteRaisesIgnoringForce(e, f) == e.kind # "absent"

\* Line 23 of safe_write: `if path.exists() and not force: raise FileExistsError`.
SafeWriteRaises(e, f) == e.kind # "absent" /\ ~f

\* Line 25 of safe_write: path.write_text(contents).  The file is created
\* without the executable bit, or truncated and rewritten keeping its mode.
WriteText(e, text) == [kind |-> "file", contents |-> text, exec |-> e.exec]

\* A chmod that leaves the mode as it is.
ChmodNoop(e) == e

\* Line 643: build_sh_path.chmod(0o755).
Chmod(e) == [e EXCEPT !.exec = TRUE]

Advance ==
    /\ step' = step + 1
    /\ pc' = IF step = Len(WriteOrder) THEN "report" ELSE "write"
    /\ UNCHANGED <<exit_code, stderr>>

\* One safe_write call of lines 636-646, inside `try: ... except Exception`:
\* a conflict, a directory at the path, or an I/O error (which may leave the
\* file truncated) ends the run with "Failed to write project files".
SafeWriteStep ==
    /\ pc = "write"
    /\ WriteOrder[step] \in FileNames
    /\ LET f == WriteOrder[step]
           e == fs.files[f]
       IN  \/ /\ SafeWriteRaises(e, force)
              /\ conflict' = TRUE
              /\ Exit("write_failed")
              /\ UNCHANGED <<fs, step, written, faulted>>
           \/ /\ ~SafeWriteRaises(e, force)
              /\ e.kind = "dir"
              /\ Exit("write_failed")
              /\ UNCHANGED <<fs, step, written, faulted, conflict>>
           \/ /\ ~SafeWriteRaises(e, force)
              /\ e.kind # "dir"
              /\ faulted' = TRUE
              /\ Exit("write_failed")
              /\ UNCHANGED <<fs, step, written, conflict>>
           \/ /\ ~SafeWriteRaises(e, force)
              /\ e.kind # "dir"
              /\ fs' = [fs EXCEPT !.files[f] =
                            WriteText(e, Render(f, project_display_name, slug))]
              /\ written' = Append(written, f)
              /\ Advance
              /\ UNCHANGED <<faulted, conflict>>
    /\ UNCHANGED <<fs0, project_display_name, force, slug, created, rerun,
                   succeeded>>

\* Line 643, inside the same try block.
ChmodStep ==
    /\ pc = "write"
    /\ WriteOrder[step] = "chmod build.sh"
    /\ \/ /\ fs' = [fs EXCEPT !.files["build.sh"] = Chmod(@)]
          /\ written' = Append(written, "chmod build.sh")
          /\ Advance
          /\ UNCHANGED faulted
       \/ /\ faulted' = TRUE
          /\ Exit("write_failed")
          /\ UNCHANGED <<fs, step, written>>
    /\ UNCHANGED <<fs0, project_display_name, force, slug, conflict, created,
                   rerun, succeeded>>

\* Lines 650-655: the success summary; main() returns and the status is 0.
Report ==
    /\ pc = "report"
    /\ pc' = "done"
    /\ exit_code' = 0
    /\ stderr' = "none"
    /\ succeeded' = succeeded \cup {project_display_name}
    /\ UNCHANGED <<fs, fs0, project_display_name, force, slug, step, written,
                   conflict, created, faulted, rerun>>

----------------------------------------------------------------------------
(* The generated program: main.cpp constructs an Application, runs it and   *)
(* lets it go out of scope.  The resources are those of GLFW and Dear ImGui *)
(* that need a matching release call.                                       *)

MaxFrames == 2      \* frames drawn before the user closes the window

\* In the order init() acquires them.
Resources == <<"glfw", "window", "imgui_context", "imgui_impl_glfw", "imgui_impl_opengl3">>

ResourceSet == {Resources[i] : i \in 1..Len(Resources)}

Colors == {"default", "edited"}
Sizes  == {"1280x720", "resized"}

InitAppVars ==
    /\ app_pc = "main"
    /\ glfw_initialized_ = FALSE
    /\ window_ = FALSE
    /\ imgui_initialized_ = FALSE
    /\ acquired = [r \in ResourceSet |-> 0]
    /\ released = [r \in ResourceSet |-> 0]
    /\ release_log = <<>>
    /\ frames = 0
    /\ clear_color = "default"
    /\ viewport = "1280x720"
    /\ should_close = FALSE
    /\ app_exit = -1

Acquire(r) == acquired' = [acquired EXCEPT ![r] = @ + 1]

\* The release calls rs, made in this order.
Release(rs) ==
    /\ released' = [r \in ResourceSet |->
                      released[r] + Cardinality({i \in 1..Len(rs) : rs[i] = r})]
    /\ release_log' = release_log \o rs

\* ImGui::GetCurrentContext() is non-null while a context is alive.
GetCurrentContext == acquired["imgui_context"] > released["imgui_context"]

\* `throw std::runtime_error(...)` inside init(), called from the
\* constructor: the exception leaves the constructor, so the object is never
\* complete and ~Application() is not run for it; control reaches the catch
\* clause of main().
Throw == app_pc' = "catch"

\* main.cpp line 133 / Application.cpp lines 208-211: the constructor stores
\* title and size and calls init().
Construct ==
    /\ app_pc = "main"
    /\ app_pc' = "glfwInit"
    /\ UNCHANGED <<glfw_initialized_, window_, imgui_initialized_, acquired,
                   released, release_log, frames, clear_color, viewport, app_exit,
                   should_close>>

\* init(), lines 218-222.
GlfwInit ==
    /\ app_pc = "glfwInit"
    /\ \/ /\ Acquire("glfw")
          /\ glfw_initialized_' = TRUE
          /\ app_pc' = "glfwCreateWindow"
       \/ /\ Throw
          /\ UNCHANGED <<acquired, glfw_initialized_>>
    /\ UNCHANGED <<window_, imgui_initialized_, released, release_log, frames,
                   clear_color, viewport, app_exit,
                   should_close>>

\* init(), lines 224-237.
GlfwCreateWindow ==
    /\ app_pc = "glfwCreateWindow"
    /\ \/ /\ Acquire("window")
          /\ window_' = TRUE
          /\ app_pc' = "gladLoadGLLoader"
       \/ /\ Throw
          /\ UNCHANGED <<acquired, window_>>
    /\ UNCHANGED <<glfw_initialized_, imgui_initialized_, released, release_log,
                   frames, clear_color, viewport, app_exit,
                   should_close>>

\* init(), lines 239-249: the function loader, the resize callback and the
\* first viewport.
GladLoadGLLoader ==
    /\ app_pc = "gladLoadGLLoader"
    /\ \/ /\ app_pc' = "ImGuiCreateContext"
          /\ \E sz \in Sizes : viewport' = sz
       \/ /\ Throw
          /\ UNCHANGED viewport
    /\ UNCHANGED <<glfw_initialized_, window_, imgui_initialized_, acquired,
                   released, release_log, frames, clear_color, app_exit,
                   should_close>>

\* init(), lines 251-255.
ImGuiCreateContext ==
    /\ app_pc = "ImGuiCreateContext"
    /\ Acquire("imgui_context")
    /\ app_pc' = "ImplGlfwInit"
    /\ UNCHANGED <<glfw_initialized_, window_, imgui_initialized_, released,
                   release_log, frames, clear_color, viewport, app_exit,
                   should_close>>

\* init(), lines 257-259.
ImplGlfwInit ==
    /\ app_pc = "ImplGlfwInit"
    /\ \/ /\ Acquire("imgui_impl_glfw")
          /\ app_pc' = "ImplOpenGL3Init"
       \/ /\ Throw
          /\ UNCHANGED acquired
    /\ UNCHANGED <<glfw_initialized_, window_, imgui_initialized_, released,
                   release_log, frames, clear_color, viewport, app_exit,
                   should_close>>

\* init(), lines 260-264; the constructor returns and main() calls run().
ImplOpenGL3Init ==
    /\ app_pc = "ImplOpenGL3Init"
    /\ \/ /\ Acquire("imgui_impl_opengl3")
          /\ imgui_initialized_' = TRUE
          /\ app_pc' = "loop"
       \/ /\ Throw
          /\ UNCHANGED <<acquired, imgui_initialized_>>
    /\ UNCHANGED <<glfw_initialized_, window_, released, release_log, frames,
                   clear_color, viewport, app_exit,
                   should_close>>

\* main.cpp lines 135-138: the catch clause reports the error and returns
\* EXIT_FAILURE.
CatchFatal ==
    /\ app_pc = "catch"
    /\ app_pc' = "exited"
    /\ app_exit' = 1
    /\ UNCHANGED <<glfw_initialized_, window_, imgui_initialized_, acquired,
                   released, release_log, frames, clear_color, viewport,
                   should_close>>

\* run(), line 274: the loop test.  When the loop ends run() returns, its
\* local clear_color goes away, and `app` goes out of scope in main().
LoopTest ==
    /\ app_pc = "loop"
    /\ IF should_close
       THEN app_pc' = "shutdown" /\ clear_color' = "default"
       ELSE app_pc' = "glfwPollEvents" /\ UNCHANGED clear_color
    /\ UNCHANGED <<glfw_initialized_, window_, imgui_initialized_, acquired,
                   released, release_log, frames, viewport, should_close, app_exit>>

\* run(), line 275: glfwPollEvents() delivers the close request and runs the
\* resize callback.  The user closes the window after MaxFrames frames at
\* the latest.
PollEvents ==
    /\ app_pc = "glfwPollEvents"
    /\ \E close \in BOOLEAN, sz \in Sizes :
         /\ frames >= MaxFrames => close
         /\ should_close' = close
         /\ viewport' = sz
    /\ app_pc' = "NewFrame"
    /\ UNCHANGED <<glfw_initialized_, window_, imgui_initialized_, acquired,
                   released, release_log, frames, clear_color, app_exit>>

\* run(), lines 277-279.
NewFrame ==
    /\ app_pc = "NewFrame"
    /\ app_pc' = "panel"
    /\ UNCHANGED <<glfw_initialized_, window_, imgui_initialized_, acquired,
                   released, release_log, frames, clear_color, viewport,
                   should_close, app_exit>>

\* run(), lines 281-286: the panel; the colour editor may change clear_color.
DrawPanel ==
    /\ app_pc = "panel"
    /\ \E c \in Colors : clear_color' = c
    /\ app_pc' = "render"
    /\ UNCHANGED <<glfw_initialized_, window_, imgui_initialized_, acquired,
                   released, release_log, frames, viewport, should_close, app_exit>>

\* run(), lines 288-295: render, clear, draw and swap; the frame is done.
RenderAndSwap ==
    /\ app_pc = "render"
    /\ frames' = frames + 1
    /\ app_pc' = "loop"
    /\ UNCHANGED <<glfw_initialized_, window_, imgui_initialized_, acquired,
                   released, release_log, clear_color, viewport, should_close,
                   app_exit>>

\* ~Application() calls shutdown(); lines 300-307.
ShutdownImGui ==
    /\ app_pc = "shutdown"
    /\ IF imgui_initialized_
       THEN /\ Release(<<"imgui_impl_opengl3", "imgui_impl_glfw", "imgui_context">>)
            /\ imgui_initialized_' = FALSE
       ELSE /\ IF GetCurrentContext
               THEN Release(<<"imgui_context">>)
               ELSE UNCHANGED <<released, release_log>>
            /\ UNCHANGED imgui_initialized_
    /\ app_pc' = "shutdownWindow"
    /\ UNCHANGED <<glfw_initialized_, window_, acquired, frames, clear_color,
                   viewport, app_exit,
                   should_close>>

\* shutdown(), lines 309-312.
ShutdownWindow ==
    /\ app_pc = "shutdownWindow"
    /\ IF window_
       THEN Release(<<"window">>) /\ window_' = FALSE
       ELSE UNCHANGED <<released, release_log, window_>>
    /\ app_pc' = "shutdownGlfw"
    /\ UNCHANGED <<glfw_initialized_, imgui_initialized_, acquired, frames,
                   clear_color, viewport, app_exit,
                   should_close>>

\* shutdown(), lines 314-317, then main.cpp line 139: EXIT_SUCCESS.
ShutdownGlfw ==
    /\ app_pc = "shutdownGlfw"
    /\ IF glfw_initialized_
       THEN Release(<<"glfw">>) /\ glfw_initialized_' = FALSE
       ELSE UNCHANGED <<released, release_log, glfw_initialized_>>
    /\ app_pc' = "exited"
    /\ app_exit' = 0
    /\ UNCHANGED <<window_, imgui_initialized_, acquired, frames, clear_color,
                   viewport,
                   should_close>>

----------------------------------------------------------------------------
(* The generated build.sh.  A path is a sequence of components; <<>> is the *)
(* empty string; an absolute path starts with "/".  A variable of the       *)
(* environment is "unset", "empty" or "set".                                *)

MaxArgs == 2        \* command-line arguments of build.sh
MaxExecs == 1       \* executables the build leaves behind

Types == {"Debug", "Release", "RelWithDebInfo", "MinSizeRel"}

\* The words tried on the command line.
Tokens == {"Release", "MinSizeRel", "-r", "-fmt", "-h", "--bogus"}

ArgLists == UNION {[1..k -> Tokens] : k \in 0..MaxArgs}

\* The slug build_build_script(slug) was rendered with.
ShSlug == "b_a"

BUILD_DIR == <<"build">>

\* Values of APP_PATH in the environment: unset or empty, relative, absolute.
AppPathEnv == {<<>>, <<"out", "app">>, <<"/", "opt", "app">>}

\* ${APP_PATH:-bin/${TYPE}/<slug>} of lines 370 and 413.
AppPathDefault(cur, t) == IF cur # <<>> THEN cur ELSE <<"bin", t, ShSlug>>

InitShVars ==
    /\ sh_pc = "start"
    /\ argv \in ArgLists
    /\ env \in [APP_PATH : AppPathEnv, ONEAPI_ROOT : {"unset", "empty", "set"},
                IPPROOT : {"unset", "set"}]
    /\ TYPE = ""
    /\ RUN_AFTER_BUILD = 0
    /\ FORMAT_AFTER_BUILD = 0
    /\ APP_PATH = <<>>
    /\ ONEAPI_ROOT = env.ONEAPI_ROOT
    /\ IPPROOT = env.IPPROOT
    /\ errexit = FALSE
    /\ nounset = FALSE
    /\ err_trap = FALSE
    /\ saved_opts = [errexit |-> FALSE, nounset |-> FALSE]
    /\ roots = <<>>
    /\ cand = 0
    /\ oneapi = "not called"
    /\ out = <<>>
    /\ execs = {}
    /\ ran = <<>>
    /\ sh_exit = -1

ShIdle ==
    /\ InitShVars
    /\ argv = <<>>
    /\ env = [APP_PATH |-> <<>>, ONEAPI_ROOT |-> "unset", IPPROOT |-> "unset"]

ShExit(code) == sh_pc' = "exited" /\ sh_exit' = code

\* Lines 363-375: the options, the ERR trap and the defaults.  APP_PATH gets
\* its default here, while TYPE is still "Debug".
ShDefaults ==
    /\ sh_pc = "start"
    /\ errexit' = TRUE
    /\ nounset' = TRUE
    /\ err_trap' = TRUE
    /\ RUN_AFTER_BUILD' = 0
    /\ TYPE' = "Debug"
    /\ APP_PATH' = AppPathDefault(env.APP_PATH, "Debug")
    /\ FORMAT_AFTER_BUILD' = 0
    /\ sh_pc' = "args"
    /\ UNCHANGED <<argv, env, ONEAPI_ROOT, IPPROOT, roots, cand, oneapi, out,
                   execs, ran, sh_exit,
                   saved_opts>>

\* Lines 389-411: one round of the argument loop.
ShParseArg ==
    /\ sh_pc = "args"
    /\ argv # <<>>
    /\ LET a == Head(argv)
       IN  /\ TYPE' = IF a \in Types THEN a ELSE TYPE
           /\ RUN_AFTER_BUILD' = IF a \in {"-r", "--run"} THEN 1 ELSE RUN_AFTER_BUILD
           /\ FORMAT_AFTER_BUILD' =
                  IF a \in {"-fmt", "--format"} THEN 1 ELSE FORMAT_AFTER_BUILD
           /\ IF a \in {"-h", "--help"}
              THEN ShExit(0) /\ out' = Append(out, "usage") /\ UNCHANGED argv
              ELSE IF a \notin Types \cup {"-r", "--run", "-fmt", "--format"}
              THEN ShExit(1) /\ out' = Append(out, "usage") /\ UNCHANGED argv
              ELSE argv' = Tail(argv) /\ UNCHANGED <<sh_pc, sh_exit, out>>
    /\ UNCHANGED <<env, APP_PATH, ONEAPI_ROOT, IPPROOT, errexit, nounset,
                   err_trap, roots, cand, oneapi, execs, ran,
                   saved_opts>>

\* Lines 413-414, after the loop.
ShAfterArgs ==
    /\ sh_pc = "args"
    /\ argv = <<>>
    /\ APP_PATH' = AppPathDefault(APP_PATH, TYPE)
    /\ sh_pc' = "format"
    /\ UNCHANGED <<argv, env, TYPE, RUN_AFTER_BUILD, FORMAT_AFTER_BUILD,
                   ONEAPI_ROOT, IPPROOT, errexit, nounset, err_trap, roots, cand,
                   oneapi, out, execs, ran, sh_exit,
                   saved_opts>>

\* A simple command of the top level that may fail: under errexit a failure
\* ends the script with the command's status.
ShCommand(nextpc) ==
    /\ \/ sh_pc' = nextpc /\ UNCHANGED sh_exit
       \/ errexit /\ ShExit(1)
    /\ UNCHANGED <<argv, env, TYPE, RUN_AFTER_BUILD, FORMAT_AFTER_BUILD, APP_PATH,
                   ONEAPI_ROOT, IPPROOT, errexit, nounset, err_trap, roots, cand,
                   oneapi, out, execs, ran,
                   saved_opts>>

\* Lines 491-494.
ShFormat ==
    /\ sh_pc = "format"
    /\ IF FORMAT_AFTER_BUILD = 1
       THEN ShCommand("configure")
       ELSE /\ sh_pc' = "configure"
            /\ UNCHANGED <<argv, env, TYPE, RUN_AFTER_BUILD, FORMAT_AFTER_BUILD,
                           APP_PATH, ONEAPI_ROOT, IPPROOT, errexit, nounset,
                           err_trap, roots, cand, oneapi, out, execs, ran, sh_exit,
                   saved_opts>>

\* Lines 496-498: cmake -B.
ShConfigure == sh_pc = "configure" /\ ShCommand("build")

\* Line 499: cmake --build.
ShBuild == sh_pc = "build" /\ ShCommand("oneapi")

\* The files source_oneapi_env looks for under each root (line 452-453);
\* the last two are glob patterns.
OneapiFiles == <<"oneapi-vars.sh", "setvars.sh", "*/oneapi-vars.sh", "*/setvars.sh">>

\* Lines 451-454: the candidate scripts, root by root.
Candidates(rs) ==
    [i \in 1..(Len(rs) * Len(OneapiFiles)) |->
        <<rs[((i - 1) \div Len(OneapiFiles)) + 1],
          OneapiFiles[((i - 1) % Len(OneapiFiles)) + 1]>>]

\* eval "$_saved_opts" (lines 467 and 484).
EvalSavedOpts ==
    /\ errexit' = saved_opts.errexit
    /\ nounset' = saved_opts.nounset

\* source_oneapi_env, lines 443-459: the roots, the candidates, and the
\* shell options and ERR trap saved for later.  "$(set +o)" runs in a command
\* substitution, where bash has switched errexit off, so the saved text says
\* `set +o errexit`; nounset is saved as it is.
ShOneapiBegin ==
    /\ sh_pc = "oneapi"
    /\ roots' = (IF ONEAPI_ROOT = "set" THEN <<"$ONEAPI_ROOT">> ELSE <<>>)
                \o <<"$HOME/intel/oneapi", "/opt/intel/oneapi">>
    /\ saved_opts' = [errexit |-> FALSE, nounset |-> nounset]
    /\ err_trap' = FALSE
    /\ cand' = 1
    /\ oneapi' = "searching"
    /\ sh_pc' = "probe"
    /\ UNCHANGED <<argv, env, TYPE, RUN_AFTER_BUILD, FORMAT_AFTER_BUILD, APP_PATH,
                   ONEAPI_ROOT, IPPROOT, errexit, nounset, out, execs, ran, sh_exit>>

\* Lines 461-481: one round of the loop over the candidates.  The script at
\* the path is unreadable or missing, fails when sourced, or is sourced with
\* status 0 and may export ONEAPI_ROOT.
ShProbe ==
    /\ sh_pc = "probe"
    /\ cand <= Len(Candidates(roots))
    /\ \/ /\ cand' = cand + 1
          /\ UNCHANGED <<sh_pc, ONEAPI_ROOT, errexit, nounset, err_trap, oneapi, out>>
       \/ /\ EvalSavedOpts
          /\ err_trap' = FALSE
          /\ cand' = cand + 1
          /\ UNCHANGED <<sh_pc, ONEAPI_ROOT, oneapi, out>>
       \/ \E exports \in BOOLEAN :
            /\ EvalSavedOpts
            /\ ONEAPI_ROOT' = IF exports THEN "set" ELSE ONEAPI_ROOT
            /\ out' = Append(out, "oneAPI environment sourced")
            /\ IF IPPROOT = "set" \/ ONEAPI_ROOT' = "set"
               THEN /\ err_trap' = TRUE
                    /\ oneapi' = "found"
                    /\ sh_pc' = "completed"
                    /\ UNCHANGED cand
               ELSE /\ err_trap' = FALSE
                    /\ cand' = cand + 1
                    /\ UNCHANGED <<sh_pc, oneapi>>
    /\ UNCHANGED <<argv, env, TYPE, RUN_AFTER_BUILD, FORMAT_AFTER_BUILD, APP_PATH,
                   IPPROOT, saved_opts, roots, execs, ran, sh_exit>>

\* Lines 483-488 and the return to line 501: nothing was found.  The options
\* and the trap are restored, the warning expands $ONEAPI_ROOT (an error
\* under nounset when it is unset: the shell exits with status 1), and the
\* function returns 1, which ends the script when errexit is on.
ShNothingFound ==
    /\ sh_pc = "probe"
    /\ cand > Len(Candidates(roots))
    /\ EvalSavedOpts
    /\ err_trap' = TRUE
    /\ oneapi' = "nothing found"
    /\ IF ONEAPI_ROOT = "unset" /\ nounset'
       THEN ShExit(1) /\ out' = Append(out, "ONEAPI_ROOT: unbound variable")
       ELSE /\ out' = Append(out, "Could not find a working oneAPI env script")
            /\ IF errexit' THEN ShExit(1)
               ELSE sh_pc' = "completed" /\ UNCHANGED sh_exit
    /\ UNCHANGED <<argv, env, TYPE, RUN_AFTER_BUILD, FORMAT_AFTER_BUILD, APP_PATH,
                   ONEAPI_ROOT, IPPROOT, saved_opts, roots, cand, execs, ran>>

\* Line 503.
ShCompleted ==
    /\ sh_pc = "completed"
    /\ out' = Append(out, "Build completed.")
    /\ sh_pc' = "case"
    /\ UNCHANGED <<argv, env, TYPE, RUN_AFTER_BUILD, FORMAT_AFTER_BUILD, APP_PATH,
                   ONEAPI_ROOT, IPPROOT, errexit, nounset, err_trap, saved_opts,
                   roots, cand, oneapi, execs, ran, sh_exit>>

\* resolve_executable, lines 416-431: the candidate locations, in order.
ExeCandidates(declared, t) ==
    (IF declared = <<>> THEN <<>>
     ELSE IF Head(declared) = "/" THEN <<declared>>
     ELSE <<BUILD_DIR \o declared, declared>>)
    \o <<BUILD_DIR \o <<"bin", t, ShSlug>>, BUILD_DIR \o <<ShSlug>>,
         BUILD_DIR \o <<"bin", ShSlug>>, BUILD_DIR \o <<t, ShSlug>>>>

\* resolve_executable, lines 433-440: the first candidate that is executable,
\* <<>> (status 1) when none is.
ResolveExecutable(declared, t, xs) ==
    LET c == ExeCandidates(declared, t)
        hits == {i \in 1..Len(c) : c[i] \in xs}
    IN  IF hits = {} THEN <<>>
        ELSE c[CHOOSE i \in hits : \A j \in hits : i <= j]

\* Where the build may have left executables: the places build.sh looks in,
\* for the selected type and for Debug.
ExePlaces(declared, t) ==
    LET c == ExeCandidates(declared, t) \o ExeCandidates(<<>>, "Debug")
    IN  {c[i] : i \in 1..Len(c)}

\* Lines 505-522 (SHOULD_RUN is "run" exactly when RUN_AFTER_BUILD is 1): run
\* the resolved executable, whose status becomes the script's, or fail with
\* status 1 when there is none; without --run print "Done.".
ShCase ==
    /\ sh_pc = "case"
    /\ IF RUN_AFTER_BUILD = 1
       THEN \E xs \in {x \in SUBSET ExePlaces(APP_PATH, TYPE) : Cardinality(x) <= MaxExecs} :
              /\ execs' = xs
              /\ ran' = ResolveExecutable(APP_PATH, TYPE, xs)
              /\ IF ran' = <<>>
                 THEN ShExit(1) /\ out' = Append(out, "executable was not found")
                 ELSE /\ out' = Append(out, "Running application")
                      /\ \E status \in {0, 1} : ShExit(status)
       ELSE /\ out' = Append(out, "Done.")
            /\ ShExit(0)
            /\ UNCHANGED <<execs, ran>>
    /\ UNCHANGED <<argv, env, TYPE, RUN_AFTER_BUILD, FORMAT_AFTER_BUILD, APP_PATH,
                   ONEAPI_ROOT, IPPROOT, errexit, nounset, err_trap, saved_opts,
                   roots, cand, oneapi>>

----------------------------------------------------------------------------
(* Specifications: one per part of the program.                            *)

SlugIdle == name = <<>> /\ result = Pending

InitSlug == InitSlugVars /\ InitGenVars({EmptyTree}) /\ InitAppVars /\ ShIdle

NextSlug == CallSlugify /\ UNCHANGED <<varsGen, varsApp, varsSh>>

SpecSlug == InitSlug /\ [][NextSlug]_vars

InitGen == SlugIdle /\ InitGenVars(PreTrees) /\ InitAppVars /\ ShIdle

NextGen ==
    \/ ParseAndResolve /\ UNCHANGED <<varsSlug, varsApp, varsSh>>
    \/ Slugify /\ UNCHANGED <<varsSlug, varsApp, varsSh>>
    \/ MkdirRoot /\ UNCHANGED <<varsSlug, varsApp, varsSh>>
    \/ MkdirSrc /\ UNCHANGED <<varsSlug, varsApp, varsSh>>
    \/ MkdirCmake /\ UNCHANGED <<varsSlug, varsApp, varsSh>>
    \/ SafeWriteStep /\ UNCHANGED <<varsSlug, varsApp, varsSh>>
    \/ ChmodStep /\ UNCHANGED <<varsSlug, varsApp, varsSh>>
    \/ Report /\ UNCHANGED <<varsSlug, varsApp, varsSh>>

SpecGen == InitGen /\ [][NextGen]_vars

InitApp == SlugIdle /\ InitGenVars({EmptyTree}) /\ InitAppVars /\ ShIdle

NextApp ==
    \/ Construct /\ UNCHANGED <<varsSlug, varsGen, varsSh>>
    \/ GlfwInit /\ UNCHANGED <<varsSlug, varsGen, varsSh>>
    \/ GlfwCreateWindow /\ UNCHANGED <<varsSlug, varsGen, varsSh>>
    \/ GladLoadGLLoader /\ UNCHANGED <<varsSlug, varsGen, varsSh>>
    \/ ImGuiCreateContext /\ UNCHANGED <<varsSlug, varsGen, varsSh>>
    \/ ImplGlfwInit /\ UNCHANGED <<varsSlug, varsGen, varsSh>>
    \/ ImplOpenGL3Init /\ UNCHANGED <<varsSlug, varsGen, varsSh>>
    \/ CatchFatal /\ UNCHANGED <<varsSlug, varsGen, varsSh>>
    \/ LoopTest /\ UNCHANGED <<varsSlug, varsGen, varsSh>>
    \/ PollEvents /\ UNCHANGED <<varsSlug, varsGen, varsSh>>
    \/ NewFrame /\ UNCHANGED <<varsSlug, varsGen, varsSh>>
    \/ DrawPanel /\ UNCHANGED <<varsSlug, varsGen, varsSh>>
    \/ RenderAndSwap /\ UNCHANGED <<varsSlug, varsGen, varsSh>>
    \/ ShutdownImGui /\ UNCHANGED <<varsSlug, varsGen, varsSh>>
    \/ ShutdownWindow /\ UNCHANGED <<varsSlug, varsGen, varsSh>>
    \/ ShutdownGlfw /\ UNCHANGED <<varsSlug, varsGen, varsSh>>

SpecApp == InitApp /\ [][NextApp]_vars

InitSh == SlugIdle /\ InitGenVars({EmptyTree}) /\ InitAppVars /\ InitShVars

NextSh ==
    \/ ShDefaults /\ UNCHANGED <<varsSlug, varsGen, varsApp>>
    \/ ShParseArg /\ UNCHANGED <<varsSlug, varsGen, varsApp>>
    \/ ShAfterArgs /\ UNCHANGED <<varsSlug, varsGen, varsApp>>
    \/ ShFormat /\ UNCHANGED <<varsSlug, varsGen, varsApp>>
    \/ ShConfigure /\ UNCHANGED <<varsSlug, varsGen, varsApp>>
    \/ ShBuild /\ UNCHANGED <<varsSlug, varsGen, varsApp>>
    \/ ShOneapiBegin /\ UNCHANGED <<varsSlug, varsGen, varsApp>>
    \/ ShProbe /\ UNCHANGED <<varsSlug, varsGen, varsApp>>
    \/ ShNothingFound /\ UNCHANGED <<varsSlug, varsGen, varsApp>>
    \/ ShCompleted /\ UNCHANGED <<varsSlug, varsGen, varsApp>>
    \/ ShCase /\ UNCHANGED <<varsSlug, varsGen, varsApp>>

SpecSh == InitSh /\ [][NextSh]_vars

----------------------------------------------------------------------------
(* Properties of slugify, checked under SpecSlug.                          *)

Computed == result # Pending

\* str.isalnum() holds of letters and digits, ASCII or not.
HasAlnum(s) ==
    \E i \in 1..Len(s) : s[i] \in AsciiLower \cup AsciiUpper \cup Digits \cup NonAscii

HasAsciiAlnum(s) ==
    \E i \in 1..Len(s) : s[i] \in AsciiLower \cup AsciiUpper \cup Digits

WellFormedSlug(v) ==
    /\ v # <<>>
    /\ \A i \in 1..Len(v) : v[i] \in AsciiLower \cup Digits \cup {"_"}
    /\ v[1] # "_"
    /\ v[Len(v)] # "_"
    /\ \A i \in 1..(Len(v) - 1) : ~(v[i] = "_" /\ v[i + 1] = "_")

\* C1 as stated: every non-empty display name with at least one alphanumeric
\* character gets a well-formed slug.
C1_AnyAlnumGetsSlug ==
    (Computed /\ name # <<>> /\ HasAlnum(name)) =>
        (result.raised = "none" /\ WellFormedSlug(result.value))

\* C1 (amended): every display name with at least one ASCII letter or digit
\* gets a non-empty slug over [a-z0-9] and "_" with no leading, trailing or
\* doubled "_"; "My Game!!" gives "my_game".
C1_AsciiAlnumGetsSlug ==
    /\ (Computed /\ HasAsciiAlnum(name)) =>
           (result.raised = "none" /\ WellFormedSlug(result.value))
    /\ (Computed /\ name = MyGame) =>
           result.value = <<"m", "y", "_", "g", "a", "m", "e">>

C1_Witness ==
    \/ Computed /\ name = MyGame /\ result.raised = "none"
    \/ Computed /\ name = <<"a", "*", "B">> /\ result.value = <<"a", "_", "b">>

\* C2: slugify raises ValueError and returns no slug for every input made
\* only of whitespace and punctuation, and more generally whenever no
\* character of the input lower-cases into [a-z0-9].
C2_SeparatorsOnlyRaises ==
    /\ (Computed /\ \A i \in 1..Len(name) : name[i] \in Whitespace \cup Punct) =>
           (result.raised = "ValueError" /\ result.value = <<>>)
    /\ (Computed /\ \A i \in 1..Len(name) : Lower(name[i]) \notin AsciiLower \cup Digits) =>
           (result.raised = "ValueError" /\ result.value = <<>>)

C2_Witness ==
    /\ Computed
    /\ name \in {<<"*", "*", "*">>, <<" ", " ", " ">>}
    /\ result.raised = "ValueError"

----------------------------------------------------------------------------
(* Properties of the generator, checked under SpecGen.                     *)

Done == pc = "done"

Fresh(t, f) ==
    /\ t.files[f].kind = "file"
    /\ t.files[f].contents = Render(f, project_display_name, slug)

RegularFiles(t) == {f \in FileNames : t.files[f].kind = "file"}

FileCount(t) == Cardinality(RegularFiles(t)) + (IF t.extra THEN 1 ELSE 0)

Executables(t) == {f \in RegularFiles(t) : t.files[f].exec}

\* C3: a run without --force for a display name and base directory for which
\* a run has succeeded ends with a non-zero status reporting that the
\* project directory exists, and changes no file and no mode.
C3_SecondRunRefused ==
    /\ (rerun /\ ~force) => (fs = fs0 /\ written = <<>>)
    /\ (Done /\ rerun /\ ~force) =>
           (exit_code # 0 /\ stderr = "project_dir_exists")

C3_Witness ==
    /\ Done /\ rerun /\ ~force
    /\ stderr = "project_dir_exists"
    /\ \A f \in FileNames : fs.files[f].kind = "file"

\* C4 as stated: a run with --force whose project path exists succeeds and
\* leaves the freshly rendered text in each listed file, whatever was there.
C4_ForceAlwaysOverwrites ==
    (Done /\ force /\ slug # <<>> /\ fs0.root # "absent") =>
        (exit_code = 0 /\ \A f \in FileNames : Fresh(fs, f))

\* C4 (amended): a run with --force whose project path is an existing
\* directory succeeds and leaves the freshly rendered text in each listed
\* file, whatever regular files were at those paths, provided src and cmake
\* are directories or absent, no listed path is a directory and no filesystem
\* operation of the run fails.
C4_ForceOverwritesFiles ==
    (/\ Done /\ force /\ slug # <<>>
     /\ fs0.root = "dir" /\ fs0.src # "file" /\ fs0.cmake # "file"
     /\ \A f \in FileNames : fs0.files[f].kind # "dir"
     /\ ~faulted) =>
        (exit_code = 0 /\ \A f \in FileNames : Fresh(fs, f))

C4_Witness ==
    /\ Done /\ force /\ exit_code = 0 /\ ~faulted
    /\ fs0.root = "dir"
    /\ \E f \in FileNames : fs0.files[f].kind = "file" /\ ~Fresh(fs0, f)
    /\ \A f \in FileNames : Fresh(fs, f)

\* C5 as stated: after every successful run exactly the 9 listed files exist
\* under the project root and exactly one of them, build.sh, is executable.
C5_ExactlyNineAlways ==
    (Done /\ exit_code = 0) =>
        (/\ RegularFiles(fs) = FileNames
         /\ FileCount(fs) = 9
         /\ Executables(fs) = {"build.sh"})

\* C5 (amended): after every successful run the 9 listed files exist under
\* the project root and build.sh is executable; when the run created the
\* project root itself, as every successful run without --force does, they
\* are the only files under it and build.sh is the only executable one.
C5_NineFilesWhenCreated ==
    (Done /\ exit_code = 0) =>
        (/\ RegularFiles(fs) = FileNames
         /\ "build.sh" \in Executables(fs)
         /\ ~force => created
         /\ created => (FileCount(fs) = 9 /\ Executables(fs) = {"build.sh"}))

C5_Witness ==
    /\ Done /\ exit_code = 0 /\ ~force /\ created
    /\ FileCount(fs) = 9
    /\ Executables(fs) = {"build.sh"}

\* C6: every error of a run ends in a message on standard error written by
\* main's own handling and a non-zero status; none leaves main as an
\* unhandled exception.
C6_NoUnhandledException ==
    (Done /\ exit_code # 0) =>
        stderr \in {"name_required", "base_missing", "project_dir_exists",
                    "write_failed"}

ClaimedOrder ==
    <<"CMakeLists.txt", "src/main.cpp", "src/Application.hpp",
      "src/Application.cpp", "README.md", "build.sh", "chmod build.sh",
      "cmake/patch_glad.cmake", ".gitignore", ".ignore">>

IsPrefix(p, q) == Len(p) <= Len(q) /\ SubSeq(q, 1, Len(p)) = p

\* C9: the files are written in the stated order, build.sh's chmod right
\* after build.sh; when the k-th write fails the run ends at once with a
\* non-zero status, the files before it stay written and none after it is
\* written.
C9_SequentialNoRollback ==
    /\ IsPrefix(written, ClaimedOrder)
    /\ (Done /\ stderr = "write_failed") =>
           LET k == Len(written) + 1
           IN  /\ exit_code # 0
               /\ k <= Len(ClaimedOrder)
               /\ \A j \in 1..(k - 1) :
                      IF ClaimedOrder[j] = "chmod build.sh"
                      THEN fs.files["build.sh"].exec
                      ELSE Fresh(fs, ClaimedOrder[j])
               /\ \A j \in (k + 1)..Len(ClaimedOrder) :
                      ClaimedOrder[j] \in FileNames =>
                          fs.files[ClaimedOrder[j]] = fs0.files[ClaimedOrder[j]]

C9_Witness ==
    /\ Done /\ stderr = "write_failed"
    /\ written = SubSeq(ClaimedOrder, 1, 4)
    /\ fs.files[".ignore"].kind = "absent"

\* C10: a run without --force attempts a write only after it has itself
\* created the project root, and safe_write's conflict error is raised in
\* no run, with or without --force.
C10_ConflictNeverRaised ==
    /\ ~conflict
    /\ (pc = "write" /\ ~force) => created
    /\ (pc = "write" /\ WriteOrder[step] \in FileNames) =>
           ~SafeWriteRaises(fs.files[WriteOrder[step]], force)

C10_Witness ==
    /\ pc = "write" /\ ~force /\ created
    /\ Len(written) = 3
    /\ succeeded = {}

----------------------------------------------------------------------------
(* Properties of the generated Application, checked under SpecApp.         *)

Held(r) == acquired[r] - released[r]

Reverse(q) == [i \in 1..Len(q) |-> q[Len(q) + 1 - i]]

\* The resources acquired, in the order of their acquisition.
AcquiredInOrder == SelectSeq(Resources, LAMBDA r : acquired[r] > 0)

\* C7: when the program ends, after a failure at any point of the
\* initialization or after a full initialization and the destruction of the
\* object, every resource acquired has been released exactly once, in the
\* reverse of the order of acquisition.
C7_TeardownReleasesAcquired ==
    app_pc = "exited" =>
        /\ \A r \in ResourceSet : released[r] = acquired[r]
        /\ release_log = Reverse(AcquiredInOrder)

----------------------------------------------------------------------------
(* Properties of the generated build.sh, checked under SpecSh.             *)

Printed(line) == \E i \in 1..Len(out) : out[i] = line

\* C8: when source_oneapi_env finds no working environment script, after a
\* successful configure and build, the script still prints "Build
\* completed." and reaches the run step, and ends with status 0 when no run
\* was requested, whether or not ONEAPI_ROOT is set.
C8_MissingOneapiTolerated ==
    (sh_pc = "exited" /\ oneapi = "nothing found") =>
        /\ Printed("Build completed.")
        /\ RUN_AFTER_BUILD = 0 => sh_exit = 0

\* The run step was taken: resolve_executable was called.
RunStepTaken ==
    /\ sh_pc = "exited"
    /\ RUN_AFTER_BUILD = 1
    /\ Printed("Running application") \/ Printed("executable was not found")

\* C11: when APP_PATH is not set in the environment and the script is run
\* with --run, the declared path follows the selected build type: the first
\* location resolve_executable tries is BUILD_DIR/bin/TYPE/slug, the
\* executable run is the first of the locations listed for that declared
\* path that is executable, and the script ends with status 1 when none is.
C11_DeclaredPathFollowsType ==
    (RunStepTaken /\ env.APP_PATH = <<>>) =>
        /\ Head(ExeCandidates(APP_PATH, TYPE)) = BUILD_DIR \o <<"bin", TYPE, ShSlug>>
        /\ ran = ResolveExecutable(<<"bin", TYPE, ShSlug>>, TYPE, execs)
        /\ ran = <<>> => sh_exit = 1

====
